---------------------------- MODULE Spec2Model ----------------------------
(***************************************************************************)
(* Model of the Eizo FlexScan HID driver (eizo.c): the sysfs attribute     *)
(* handlers eizo_attr_store / eizo_attr_show, the protocol engine          *)
(* eizo_set_value / eizo_get_value with its per-device mutex and counter,  *)
(* and the attach / detach handlers eizo_hid_driver_probe / _remove.       *)
(*                                                                         *)
(* Callers are kernel threads running one attribute handler at a time.     *)
(* A handler is cut at its accesses to shared state (driver data, mutex,   *)
(* transport); the purely local statements between two such accesses are   *)
(* part of the step that follows them.  Statements execute in program      *)
(* order and each shared access is atomic.                                 *)
(*                                                                         *)
(* A C int is an Integer in -2^31 .. 2^31-1; a report buffer is a sequence *)
(* of 39 bytes, report[i] of the C code being report[i+1] here.            *)
(***************************************************************************)
EXTENDS Integers, Sequences, FiniteSets, TLC

\* ---------------------------------------------------------------- bounds

NumCallers == 2

\* ------------------------------------------------------- program constants

FrameLen == 39
SetReportId == 2
GetReportId == 3
CounterSeed == 1

EPERM == 1
ENOMEM == 12
EINVAL == 22
EPIPE == 32
ERANGE == 34
ENODATA == 61
ECOMM == 70

IntMax == 2147483647
IntMin == -IntMax - 1

\* eizo.h: the four usage codes, distinct 32-bit constants
EIZO_USAGE_BRIGHTNESS == 8519696
EIZO_USAGE_POWER == 8519890
EIZO_USAGE_GAMMA == 16909060
EIZO_USAGE_PROFILE == 287454020

Usages ==
    {EIZO_USAGE_BRIGHTNESS, EIZO_USAGE_POWER, EIZO_USAGE_GAMMA, EIZO_USAGE_PROFILE}

\* ------------------------------------------------------------ frame bytes

\* (x >> k) & 0xff for a C int x and k = 8 * n: the shift is arithmetic
ByteOf(x, n) ==
    CASE n = 0 -> x % 256
      [] n = 1 -> (x \div 256) % 256
      [] n = 2 -> (x \div 65536) % 256
      [] n = 3 -> (x \div 16777216) % 256

\* Mutant: kmalloc instead of kzalloc, the buffer holds stale bytes
ZeroReport_Stale == [i \in 1..FrameLen |-> IF i \in {1, 20, FrameLen} THEN 165 ELSE 0]

\* kzalloc(39, GFP_KERNEL): a zero-filled buffer
ZeroReport == [i \in 1..FrameLen |-> 0]

\* Mutant: report[9] takes value >> 8 again instead of value >> 16
SetFrame_Shift(report, usage, counter, value) ==
    [i \in 1..FrameLen |->
        CASE i = 2 -> ByteOf(usage, 0)
          [] i = 3 -> ByteOf(usage, 1)
          [] i = 4 -> ByteOf(usage, 2)
          [] i = 5 -> ByteOf(usage, 3)
          [] i = 6 -> ByteOf(counter, 0)
          [] i = 7 -> ByteOf(counter, 1)
          [] i = 8 -> ByteOf(value, 0)
          [] i = 9 -> ByteOf(value, 1)
          [] i = 10 -> ByteOf(value, 1)
          [] i = 11 -> ByteOf(value, 3)
          [] OTHER -> report[i]]

\* The frame eizo_set_value builds in its buffer: report[1..4] usage,
\* report[5..6] counter, report[7..10] value, the rest as kzalloc left it
SetFrame(report, usage, counter, value) ==
    [i \in 1..FrameLen |->
        CASE i = 2 -> ByteOf(usage, 0)
          [] i = 3 -> ByteOf(usage, 1)
          [] i = 4 -> ByteOf(usage, 2)
          [] i = 5 -> ByteOf(usage, 3)
          [] i = 6 -> ByteOf(counter, 0)
          [] i = 7 -> ByteOf(counter, 1)
          [] i = 8 -> ByteOf(value, 0)
          [] i = 9 -> ByteOf(value, 1)
          [] i = 10 -> ByteOf(value, 2)
          [] i = 11 -> ByteOf(value, 3)
          [] OTHER -> report[i]]

\* The frame eizo_get_value builds in its buffer: usage and counter only
GetFrame(report, usage, counter) ==
    [i \in 1..FrameLen |->
        CASE i = 2 -> ByteOf(usage, 0)
          [] i = 3 -> ByteOf(usage, 1)
          [] i = 4 -> ByteOf(usage, 2)
          [] i = 5 -> ByteOf(usage, 3)
          [] i = 6 -> ByteOf(counter, 0)
          [] i = 7 -> ByteOf(counter, 1)
          [] OTHER -> report[i]]

\* report[k] | (report[k+1] << 8) | (report[k+2] << 16) | (report[k+3] << 24)
\* as an int: the top byte lands on the sign bit (two's complement)
LE32(report, k) ==
    LET top == report[k + 4]
        hi == IF top >= 128 THEN top - 256 ELSE top
    IN  hi * 16777216 + report[k + 3] * 65536 + report[k + 2] * 256 + report[k + 1]

\* *value = report[7] | (report[8] << 8) | (report[9] << 16) | (report[10] << 24)
DecodeValue(report) == LE32(report, 7)

\* ------------------------------------------------------------- to_usage

\* Mutant: gamma returns the code of power
to_usage_copied(attr_name) ==
    IF attr_name = "brightness" THEN EIZO_USAGE_BRIGHTNESS
    ELSE IF attr_name = "power" THEN EIZO_USAGE_POWER
    ELSE IF attr_name = "gamma" THEN EIZO_USAGE_POWER
    ELSE IF attr_name = "profile" THEN EIZO_USAGE_PROFILE
    ELSE -1

\* Mutant: a fifth name is accepted
to_usage_extra(attr_name) ==
    IF attr_name = "brightness" THEN EIZO_USAGE_BRIGHTNESS
    ELSE IF attr_name = "power" THEN EIZO_USAGE_POWER
    ELSE IF attr_name = "gamma" THEN EIZO_USAGE_GAMMA
    ELSE IF attr_name = "profile" THEN EIZO_USAGE_PROFILE
    ELSE IF attr_name = "contrast" THEN EIZO_USAGE_BRIGHTNESS + 1
    ELSE -1

to_usage(attr_name) ==
    IF attr_name = "brightness" THEN EIZO_USAGE_BRIGHTNESS
    ELSE IF attr_name = "power" THEN EIZO_USAGE_POWER
    ELSE IF attr_name = "gamma" THEN EIZO_USAGE_GAMMA
    ELSE IF attr_name = "profile" THEN EIZO_USAGE_PROFILE
    ELSE -1

\* ------------------------------------------------------------- kstrtoint

DigitChars == <<"0", "1", "2", "3", "4", "5", "6", "7", "8", "9">>

IsDigit(c) == \E d \in 1..10 : DigitChars[d] = c

DigitVal(c) == (CHOOSE d \in 1..10 : DigitChars[d] = c) - 1

\* Number of leading decimal digits of s
RECURSIVE DigitRun(_)
DigitRun(s) ==
    IF s # <<>> /\ IsDigit(Head(s)) THEN 1 + DigitRun(Tail(s)) ELSE 0

\* The digits of s accumulated as a non-positive number, or 1 once the
\* magnitude exceeds 2^31 (beyond any int)
RECURSIVE NegAccum(_, _)
NegAccum(s, acc) ==
    IF s = <<>> \/ acc > 0 THEN acc
    ELSE LET d == DigitVal(Head(s))
         IN  IF acc >= (IntMin + d + 9) \div 10
             THEN NegAccum(Tail(s), acc * 10 - d)
             ELSE 1

\* Mutant: parsing stops at the first non-digit, as simple_strtol does
kstrtoint_lenient(buf) ==
    LET neg == buf # <<>> /\ Head(buf) = "-"
        s1 == IF neg THEN Tail(buf) ELSE buf
        n == DigitRun(s1)
        acc == NegAccum(SubSeq(s1, 1, n), 0)
    IN  IF n = 0 THEN <<-EINVAL, 0>>
        ELSE IF acc > 0 THEN <<-ERANGE, 0>>
        ELSE IF neg THEN <<0, acc>>
        ELSE IF acc = IntMin THEN <<-ERANGE, 0>>
        ELSE <<0, -acc>>

\* kstrtoint(buf, 10, &value): a '-', or else an optional '+'; at least one
\* digit; an optional single trailing newline; and the result within int.
\* <<0, value>> on success, <<-errno, 0>> otherwise.
kstrtoint(buf) ==
    LET neg == buf # <<>> /\ Head(buf) = "-"
        s1 == IF neg THEN Tail(buf) ELSE buf
        s2 == IF ~neg /\ s1 # <<>> /\ Head(s1) = "+" THEN Tail(s1) ELSE s1
        n == DigitRun(s2)
        rest == SubSeq(s2, n + 1, Len(s2))
        tail == IF rest # <<>> /\ Head(rest) = "\n" THEN Tail(rest) ELSE rest
        acc == NegAccum(SubSeq(s2, 1, n), 0)
    IN  IF n = 0 THEN <<-EINVAL, 0>>
        ELSE IF tail # <<>> THEN <<-EINVAL, 0>>
        ELSE IF acc > 0 THEN <<-ERANGE, 0>>
        ELSE IF neg THEN <<0, acc>>
        ELSE IF acc = IntMin THEN <<-ERANGE, 0>>
        ELSE <<0, -acc>>

\* --------------------------------------------------------------- sprintf

\* Decimal digits of -n for n <= 0, most significant first
RECURSIVE NegDigits(_)
NegDigits(n) ==
    LET d == (10 - (n % 10)) % 10
        q == (n + d) \div 10
    IN  IF q = 0 THEN <<DigitChars[d + 1]>>
        ELSE Append(NegDigits(q), DigitChars[d + 1])

\* sprintf(buf, "%d\n", value): the characters written
sprintf_d(value) ==
    (IF value < 0 THEN <<"-">> \o NegDigits(value) ELSE NegDigits(-value))
        \o <<"\n">>

\* ------------------------------------------------------------ environment

Chars(str) ==
    CASE str = "150" -> <<"1", "5", "0">>
      [] str = "150n" -> <<"1", "5", "0", "\n">>
      [] str = "-1" -> <<"-", "1">>
      [] str = "0" -> <<"0">>
      [] str = "+7" -> <<"+", "7">>
      [] str = "-+5" -> <<"-", "+", "5">>
      [] str = "256" -> <<"2", "5", "6">>
      [] str = "65536" -> <<"6", "5", "5", "3", "6">>
      [] str = "max" -> <<"2", "1", "4", "7", "4", "8", "3", "6", "4", "7">>
      [] str = "max+1" -> <<"2", "1", "4", "7", "4", "8", "3", "6", "4", "8">>
      [] str = "min" -> <<"-", "2", "1", "4", "7", "4", "8", "3", "6", "4", "8">>
      [] str = "-16777216" -> <<"-", "1", "6", "7", "7", "7", "2", "1", "6">>
      [] str = "-16711165" -> <<"-", "1", "6", "7", "1", "1", "1", "6", "5">>
      [] str = "abc" -> <<"a", "b", "c">>
      [] str = "12x" -> <<"1", "2", "x">>
      [] str = "" -> <<>>

AttrNames == {"brightness", "power", "gamma", "profile"}

\* Concurrent callers on one device, few inputs
EnvConcurrent ==
    [callers |-> 1..NumCallers,
     devices |-> {1},
     names |-> {"brightness", "contrast"},
     bufs |-> {Chars("150"), Chars("abc")},
     reads |-> {150}]

\* Two devices and a caller for each (either caller may use either
\* device), one input each
EnvDevices ==
    [callers |-> {1, 2},
     devices |-> {1, 2},
     names |-> {"brightness"},
     bufs |-> {Chars("150")},
     reads |-> {150}]

\* One caller on one device, many inputs
EnvSequential ==
    [callers |-> {1},
     devices |-> {1},
     names |-> AttrNames \cup {"contrast", ""},
     bufs |-> {Chars(x) : x \in {"150", "150n", "-1", "0", "+7", "-+5", "256",
                                 "65536", "max", "max+1", "min", "-16777216", "-16711165",
                                 "abc", "12x", ""}},
     reads |-> {0, 150, -1, 255, 256, 65536, IntMax, IntMin, -16777216}]

\* Statuses hid_hw_raw_request can return: a negative errno or the number of
\* bytes transferred
WriteStatuses == {-EPIPE, FrameLen}
ReadStatuses == {-EPIPE, 0, FrameLen}

\* ------------------------------------------------------------------ state

VARIABLES
    env,    \* the callers, devices and inputs of this run (never changes)
    dev,    \* per hid_device: binding state, sysfs group, drvdata, eizo_data
    th      \* per caller: position in its handler and the handler's locals

vars == <<env, dev, th>>

\* A hid_device before probe: no driver data, no attributes
UnboundDev ==
    [state |-> "unbound", sysfs |-> "absent", drvdata |-> "NULL",
     lock |-> "none", owner |-> 0, counter |-> 0, retval |-> 0]

\* A caller outside any handler.  pc, op, hdev, name, buf are the handler
\* and its arguments; usage, value, counter, report, ret are the locals of
\* eizo_set_value / eizo_get_value; res is what the engine returned, rc
\* what the handler returned and out what eizo_attr_show wrote.  The rest
\* records what happened: engine, the engine function entered; calls, the
\* transport calls made so far; waits, the hid_hw_wait calls made; phase,
\* the binding state of the device at entry; lockAt, the state of the
\* mutex when mutex_lock took it.
IdleCaller ==
    [pc |-> "idle", op |-> "none", hdev |-> 0, name |-> "", buf |-> <<>>,
     usage |-> 0, value |-> 0, counter |-> 0, report |-> <<>>, ret |-> 0,
     res |-> 0, rc |-> 0, out |-> <<>>, engine |-> "none",
     calls |-> <<>>, waits |-> 0, phase |-> "none", lockAt |-> "none"]

InitEnv(e) ==
    /\ env = e
    /\ dev = [d \in e.devices |-> UnboundDev]
    /\ th = [t \in e.callers |-> IdleCaller]

Init == InitEnv(EnvConcurrent)

InitSequential == InitEnv(EnvSequential)

InitDevices == InitEnv(EnvDevices)

\* ------------------------------------------------------- attach / detach

\* eizo_hid_driver_probe up to hid_hw_open: devm_kzalloc (zeroed eizo_data),
\* hid_parse, hid_hw_start, hid_hw_open; any failure returns its error
probe_start(d) ==
    /\ dev[d].state = "unbound"
    /\ \E retval \in {0, -ENOMEM, -EPIPE} :
          dev' = [dev EXCEPT ![d] =
                    IF retval < 0
                    THEN [@ EXCEPT !.retval = retval]
                    ELSE [@ EXCEPT !.state = "probe_sysfs", !.lock = "zero",
                                   !.owner = 0, !.counter = 0, !.retval = 0]]
    /\ UNCHANGED <<env, th>>

\* Mutant: the driver data is stored before eizo_data_init has run
probe_sysfs_publish_early(d) ==
    /\ dev[d].state = "probe_sysfs"
    /\ \E retval \in {0, -ENOMEM} :
          dev' = [dev EXCEPT ![d] =
                    IF retval < 0
                    THEN [@ EXCEPT !.state = "unbound", !.lock = "none",
                                   !.retval = retval]
                    ELSE [@ EXCEPT !.state = "probe_init", !.sysfs = "live",
                                   !.drvdata = "data"]]
    /\ UNCHANGED <<env, th>>

\* sysfs_create_group: from here on the attributes can be read and written;
\* on failure hid_hw_close, hid_hw_stop and the error
probe_sysfs(d) ==
    /\ dev[d].state = "probe_sysfs"
    /\ \E retval \in {0, -ENOMEM} :
          dev' = [dev EXCEPT ![d] =
                    IF retval < 0
                    THEN [@ EXCEPT !.state = "unbound", !.lock = "none",
                                   !.retval = retval]
                    ELSE [@ EXCEPT !.state = "probe_init", !.sysfs = "live"]]
    /\ UNCHANGED <<env, th>>

\* eizo_data_init: mutex_init(&data->lock); data->counter = 0x0001
eizo_data_init(d) ==
    /\ dev[d].state = "probe_init"
    /\ dev' = [dev EXCEPT ![d].lock = "init", ![d].owner = 0,
                          ![d].counter = CounterSeed,
                          ![d].state = "probe_publish"]
    /\ UNCHANGED <<env, th>>

\* hid_set_drvdata(hdev, data); return 0
probe_publish(d) ==
    /\ dev[d].state = "probe_publish"
    /\ dev' = [dev EXCEPT ![d].drvdata = "data", ![d].state = "bound",
                          ![d].retval = 0]
    /\ UNCHANGED <<env, th>>

\* eizo_hid_driver_remove: hid_get_drvdata, mutex_destroy(&data->lock).
\* mutex_destroy marks the mutex unusable; it does not touch its owner.
remove_destroy(d) ==
    /\ dev[d].state = "bound"
    /\ dev' = [dev EXCEPT ![d].lock = "destroyed", ![d].state = "remove_sysfs"]
    /\ UNCHANGED <<env, th>>

\* sysfs_remove_group, first half: the attributes are deactivated, no new
\* handler can start
remove_sysfs(d) ==
    /\ dev[d].state = "remove_sysfs"
    /\ dev' = [dev EXCEPT ![d].sysfs = "draining", ![d].state = "remove_drain"]
    /\ UNCHANGED <<env, th>>

\* A handler of device d that has started and not yet returned
InHandler(t, d) == th[t].hdev = d /\ th[t].pc \notin {"idle", "done"}

\* sysfs_remove_group, second half: waits for the running handlers to
\* return; then hid_hw_close, hid_hw_stop
remove_drain(d) ==
    /\ dev[d].state = "remove_drain"
    /\ \A t \in env.callers : ~InHandler(t, d)
    /\ dev' = [dev EXCEPT ![d].sysfs = "absent", ![d].state = "removed"]
    /\ UNCHANGED <<env, th>>

\* ------------------------------------------------------- handler helpers

\* hid_get_drvdata(hdev)
hid_get_drvdata(d) == dev[d].drvdata

\* Mutant: one mutex for all devices instead of one per eizo_data
MutexFree_Global(d) == \A e \in env.devices : dev[e].owner = 0

\* Mutant: mutex_lock that never waits
MutexFree_NoWait(d) == dev[d].state # "none"

\* mutex_lock can take the mutex: nobody owns it
MutexFree(d) == dev[d].owner = 0

\* mutex_lock / mutex_unlock on data->lock of device d
MutexLocked(d, t) == [dev EXCEPT ![d].owner = t]

\* Mutant: the counter is advanced after each exchange
MutexUnlocked_Advance(d) ==
    [dev EXCEPT ![d].owner = 0, ![d].counter = (@ + 1) % 65536]

MutexUnlocked(d) == [dev EXCEPT ![d].owner = 0]

\* The caller's locals on entry to a handler of device d
Enter(op, d, name, buf) ==
    [IdleCaller EXCEPT !.op = op, !.hdev = d, !.name = name, !.buf = buf,
                       !.phase = dev[d].state]

\* hid_hw_raw_request(hdev, rid, report, 39, HID_FEATURE_REPORT, req)
\* returning status: the transport sees the buffer as it is at the call
hid_hw_raw_request(c, rid, req, status) ==
    [c EXCEPT !.ret = status,
              !.calls = Append(@, [rid |-> rid, req |-> req, len |-> FrameLen,
                                   report |-> c.report, status |-> status])]

\* The buffer after a GET_REPORT that transferred n bytes carrying value v
\* in report[7..10]; nothing is written when it failed or transferred none
ReadInto(report, n, v) ==
    IF n <= 0 THEN report
    ELSE [i \in 1..FrameLen |->
            CASE i = 8 -> ByteOf(v, 0)
              [] i = 9 -> ByteOf(v, 1)
              [] i = 10 -> ByteOf(v, 2)
              [] i = 11 -> ByteOf(v, 3)
              [] OTHER -> report[i]]

\* Mutant: the status of the write is not tested
WriteFailed_Untested(c) == c.ret < IntMin

\* eizo_get_value: if (ret < 0) after the write and its hid_hw_wait
WriteFailed(c) == c.ret < 0

\* Mutant: the error of eizo_set_value is dropped, the write reports count
StoreReturn_Swallow(c, res) ==
    [c EXCEPT !.pc = "done", !.res = res, !.rc = Len(c.buf)]

\* eizo_attr_store after eizo_set_value returned res: -EPERM or count
StoreReturn(c, res) ==
    [c EXCEPT !.pc = "done", !.res = res,
              !.rc = IF res < 0 THEN -EPERM ELSE Len(c.buf)]

\* eizo_attr_show after eizo_get_value returned res: -ENODATA or the length
\* of the rendered value
ShowReturn(c, res) ==
    [c EXCEPT !.pc = "done", !.res = res,
              !.rc = IF res < 0 THEN -ENODATA ELSE Len(sprintf_d(c.value)),
              !.out = IF res < 0 THEN <<>> ELSE sprintf_d(c.value)]

\* Mutant: a failed allocation is reported like missing driver data
EngineEntry_SameError(c, alloc) ==
    IF hid_get_drvdata(c.hdev) = "NULL" \/ ~alloc
    THEN [c EXCEPT !.res = -ENODATA]
    ELSE [c EXCEPT !.pc = "lock", !.report = ZeroReport]

\* Mutant: the buffer is not fresh, it still holds the frame of a set
EngineEntry_Reuse(c, alloc) ==
    IF hid_get_drvdata(c.hdev) = "NULL" THEN [c EXCEPT !.res = -ENODATA]
    ELSE IF ~alloc THEN [c EXCEPT !.res = -ENOMEM]
    ELSE [c EXCEPT !.pc = "lock",
                   !.report = SetFrame(ZeroReport, EIZO_USAGE_BRIGHTNESS,
                                       CounterSeed,
                                       kstrtoint(Chars("150"))[2])]

\* eizo_set_value / eizo_get_value up to kzalloc: -ENODATA without driver
\* data, -ENOMEM without a buffer, else ready to take the lock
EngineEntry(c, alloc) ==
    IF hid_get_drvdata(c.hdev) = "NULL" THEN [c EXCEPT !.res = -ENODATA]
    ELSE IF ~alloc THEN [c EXCEPT !.res = -ENOMEM]
    ELSE [c EXCEPT !.pc = "lock", !.report = ZeroReport]

\* ------------------------------------------------------------ eizo_attr_store

\* eizo_attr_store up to the mutex_lock of eizo_set_value: kstrtoint,
\* to_usage, hid_get_drvdata, kzalloc
eizo_attr_store(t) ==
    /\ th[t].pc = "idle"
    /\ \E d \in env.devices, name \in env.names, buf \in env.bufs,
          alloc \in BOOLEAN :
          /\ dev[d].sysfs = "live"
          /\ LET parsed == kstrtoint(buf)
                 usage == to_usage(name)
                 c0 == Enter("store", d, name, buf)
                 c1 == [c0 EXCEPT !.engine = "set", !.usage = usage,
                                  !.value = parsed[2]]
                 c2 == EngineEntry(c1, alloc)
             IN  th' = [th EXCEPT ![t] =
                          IF parsed[1] < 0 THEN [c0 EXCEPT !.pc = "done", !.rc = -EINVAL]
                          ELSE IF usage < 0 THEN [c0 EXCEPT !.pc = "done", !.rc = -EINVAL]
                          ELSE IF c2.pc = "lock" THEN c2
                          ELSE StoreReturn(c2, c2.res)]
    /\ UNCHANGED <<env, dev>>

\* eizo_set_value: mutex_lock, counter = data->counter, the frame
eizo_set_value_lock(t) ==
    LET c == th[t] IN
    /\ c.pc = "lock" /\ c.op = "store"
    /\ MutexFree(c.hdev)
    /\ dev' = MutexLocked(c.hdev, t)
    /\ th' = [th EXCEPT ![t] =
                [c EXCEPT !.pc = "write", !.lockAt = dev[c.hdev].lock,
                          !.counter = dev[c.hdev].counter,
                          !.report = SetFrame(c.report, c.usage,
                                              dev[c.hdev].counter, c.value)]]
    /\ UNCHANGED env

\* Mutant: the request is not followed by hid_hw_wait
eizo_set_value_write_nowait(t) ==
    LET c == th[t] IN
    /\ c.pc = "write" /\ c.op = "store"
    /\ \E status \in WriteStatuses :
          th' = [th EXCEPT ![t] =
                   [hid_hw_raw_request(c, SetReportId, "SET_REPORT", status)
                        EXCEPT !.pc = "after_write"]]
    /\ UNCHANGED <<env, dev>>

\* eizo_set_value: hid_hw_raw_request(hdev, 2, report, 39, ..., SET_REPORT)
eizo_set_value_write(t) ==
    LET c == th[t] IN
    /\ c.pc = "write" /\ c.op = "store"
    /\ \E status \in WriteStatuses :
          th' = [th EXCEPT ![t] =
                   [hid_hw_raw_request(c, SetReportId, "SET_REPORT", status)
                        EXCEPT !.pc = "wait_write"]]
    /\ UNCHANGED <<env, dev>>

\* eizo_set_value: hid_hw_wait(hdev)
eizo_set_value_wait(t) ==
    LET c == th[t] IN
    /\ c.pc = "wait_write" /\ c.op = "store"
    /\ th' = [th EXCEPT ![t] = [c EXCEPT !.pc = "after_write", !.waits = @ + 1]]
    /\ UNCHANGED <<env, dev>>

\* Mutant: the error path returns without mutex_unlock
eizo_set_value_exit_leak(t) ==
    LET c == th[t] IN
    /\ c.pc = "after_write" /\ c.op = "store"
    /\ dev' = IF c.ret < 0 THEN dev ELSE MutexUnlocked(c.hdev)
    /\ th' = [th EXCEPT ![t] = StoreReturn(c, IF c.ret < 0 THEN -ECOMM ELSE 0)]
    /\ UNCHANGED env

\* Mutant: a failed request is issued again
eizo_set_value_exit_retry(t) ==
    LET c == th[t] IN
    /\ c.pc = "after_write" /\ c.op = "store"
    /\ IF c.ret < 0
       THEN /\ th' = [th EXCEPT ![t] = [c EXCEPT !.pc = "write"]]
            /\ UNCHANGED dev
       ELSE /\ dev' = MutexUnlocked(c.hdev)
            /\ th' = [th EXCEPT ![t] = StoreReturn(c, 0)]
    /\ UNCHANGED env

\* eizo_set_value: the test of ret, mutex_unlock, kfree, return; then the
\* return of eizo_attr_store
eizo_set_value_exit(t) ==
    LET c == th[t] IN
    /\ c.pc = "after_write" /\ c.op = "store"
    /\ dev' = MutexUnlocked(c.hdev)
    /\ th' = [th EXCEPT ![t] = StoreReturn(c, IF c.ret < 0 THEN -ECOMM ELSE 0)]
    /\ UNCHANGED env

\* ------------------------------------------------------------- eizo_attr_show

\* eizo_attr_show up to the mutex_lock of eizo_get_value: to_usage,
\* hid_get_drvdata, kzalloc
eizo_attr_show(t) ==
    /\ th[t].pc = "idle"
    /\ \E d \in env.devices, name \in env.names, alloc \in BOOLEAN :
          /\ dev[d].sysfs = "live"
          /\ LET usage == to_usage(name)
                 c0 == Enter("show", d, name, <<>>)
                 c1 == [c0 EXCEPT !.engine = "get", !.usage = usage]
                 c2 == EngineEntry(c1, alloc)
             IN  th' = [th EXCEPT ![t] =
                          IF usage < 0 THEN [c0 EXCEPT !.pc = "done", !.rc = -EINVAL]
                          ELSE IF c2.pc = "lock" THEN c2
                          ELSE ShowReturn(c2, c2.res)]
    /\ UNCHANGED <<env, dev>>

\* eizo_get_value: mutex_lock, counter = data->counter, the request frame
eizo_get_value_lock(t) ==
    LET c == th[t] IN
    /\ c.pc = "lock" /\ c.op = "show"
    /\ MutexFree(c.hdev)
    /\ dev' = MutexLocked(c.hdev, t)
    /\ th' = [th EXCEPT ![t] =
                [c EXCEPT !.pc = "write", !.lockAt = dev[c.hdev].lock,
                          !.counter = dev[c.hdev].counter,
                          !.report = GetFrame(c.report, c.usage,
                                              dev[c.hdev].counter)]]
    /\ UNCHANGED env

\* eizo_get_value: hid_hw_raw_request(hdev, 3, report, 39, ..., SET_REPORT)
eizo_get_value_write(t) ==
    LET c == th[t] IN
    /\ c.pc = "write" /\ c.op = "show"
    /\ \E status \in WriteStatuses :
          th' = [th EXCEPT ![t] =
                   [hid_hw_raw_request(c, GetReportId, "SET_REPORT", status)
                        EXCEPT !.pc = "wait_write"]]
    /\ UNCHANGED <<env, dev>>

\* eizo_get_value: the hid_hw_wait(hdev) after the write
eizo_get_value_wait_write(t) ==
    LET c == th[t] IN
    /\ c.pc = "wait_write" /\ c.op = "show"
    /\ th' = [th EXCEPT ![t] = [c EXCEPT !.pc = "after_write", !.waits = @ + 1]]
    /\ UNCHANGED <<env, dev>>

\* Mutant: the error path of the write returns without mutex_unlock
eizo_get_value_write_failed_leak(t) ==
    LET c == th[t] IN
    /\ c.pc = "after_write" /\ c.op = "show"
    /\ WriteFailed(c)
    /\ th' = [th EXCEPT ![t] = ShowReturn(c, -ECOMM)]
    /\ UNCHANGED <<env, dev>>

\* eizo_get_value: the write failed: mutex_unlock, kfree, -ECOMM
eizo_get_value_write_failed(t) ==
    LET c == th[t] IN
    /\ c.pc = "after_write" /\ c.op = "show"
    /\ WriteFailed(c)
    /\ dev' = MutexUnlocked(c.hdev)
    /\ th' = [th EXCEPT ![t] = ShowReturn(c, -ECOMM)]
    /\ UNCHANGED env

\* eizo_get_value: the write succeeded:
\* hid_hw_raw_request(hdev, 3, report, 39, ..., GET_REPORT) into the buffer
eizo_get_value_read(t) ==
    LET c == th[t] IN
    /\ c.pc = "after_write" /\ c.op = "show"
    /\ ~WriteFailed(c)
    /\ \E status \in ReadStatuses, v \in env.reads :
          th' = [th EXCEPT ![t] =
                   [hid_hw_raw_request(c, GetReportId, "GET_REPORT", status)
                        EXCEPT !.pc = "wait_read",
                               !.report = ReadInto(c.report, status, v)]]
    /\ UNCHANGED <<env, dev>>

\* eizo_get_value: the hid_hw_wait(hdev) after the read
eizo_get_value_wait_read(t) ==
    LET c == th[t] IN
    /\ c.pc = "wait_read" /\ c.op = "show"
    /\ th' = [th EXCEPT ![t] = [c EXCEPT !.pc = "after_read", !.waits = @ + 1]]
    /\ UNCHANGED <<env, dev>>

\* eizo_get_value: the test of ret, the decoding of *value, mutex_unlock,
\* kfree, return; then the return of eizo_attr_show
eizo_get_value_exit(t) ==
    LET c == th[t] IN
    /\ c.pc = "after_read" /\ c.op = "show"
    /\ dev' = MutexUnlocked(c.hdev)
    /\ th' = [th EXCEPT ![t] =
                IF c.ret < 0 THEN ShowReturn(c, -ECOMM)
                ELSE ShowReturn([c EXCEPT !.value = DecodeValue(c.report)], 0)]
    /\ UNCHANGED env

\* The handler's result has been delivered; the caller may start another
attr_return(t) ==
    /\ th[t].pc = "done"
    /\ th' = [th EXCEPT ![t] = IdleCaller]
    /\ UNCHANGED <<env, dev>>

\* ---------------------------------------------------------- specification

Next ==
    \/ \E d \in env.devices : probe_start(d)
    \/ \E d \in env.devices : probe_sysfs(d)
    \/ \E d \in env.devices : eizo_data_init(d)
    \/ \E d \in env.devices : probe_publish(d)
    \/ \E d \in env.devices : remove_destroy(d)
    \/ \E d \in env.devices : remove_sysfs(d)
    \/ \E d \in env.devices : remove_drain(d)
    \/ \E t \in env.callers : eizo_attr_store(t)
    \/ \E t \in env.callers : eizo_set_value_lock(t)
    \/ \E t \in env.callers : eizo_set_value_write(t)
    \/ \E t \in env.callers : eizo_set_value_wait(t)
    \/ \E t \in env.callers : eizo_set_value_exit(t)
    \/ \E t \in env.callers : eizo_attr_show(t)
    \/ \E t \in env.callers : eizo_get_value_lock(t)
    \/ \E t \in env.callers : eizo_get_value_write(t)
    \/ \E t \in env.callers : eizo_get_value_wait_write(t)
    \/ \E t \in env.callers : eizo_get_value_write_failed(t)
    \/ \E t \in env.callers : eizo_get_value_read(t)
    \/ \E t \in env.callers : eizo_get_value_wait_read(t)
    \/ \E t \in env.callers : eizo_get_value_exit(t)
    \/ \E t \in env.callers : attr_return(t)

Spec == Init /\ [][Next]_vars

SpecSequential == InitSequential /\ [][Next]_vars

SpecDevices == InitDevices /\ [][Next]_vars

\* The step caller t takes next inside its handler, if any
Step(t) ==
    \/ eizo_set_value_lock(t)
    \/ eizo_set_value_write(t)
    \/ eizo_set_value_wait(t)
    \/ eizo_set_value_exit(t)
    \/ eizo_get_value_lock(t)
    \/ eizo_get_value_write(t)
    \/ eizo_get_value_wait_write(t)
    \/ eizo_get_value_write_failed(t)
    \/ eizo_get_value_read(t)
    \/ eizo_get_value_wait_read(t)
    \/ eizo_get_value_exit(t)

\* Scheduling: a caller that can take a step of its handler eventually
\* takes it (every transport call and hid_hw_wait returns, and a runnable
\* thread is scheduled); a caller in mutex_lock that finds the mutex free
\* again and again eventually gets it (the mutex hands over to its oldest
\* waiter).  Nothing obliges a caller to start a handler, nor the device to
\* be bound or unbound.
Fairness ==
    \A t \in 1..NumCallers :
        /\ WF_vars(eizo_set_value_write(t))
        /\ WF_vars(eizo_set_value_wait(t))
        /\ WF_vars(eizo_set_value_exit(t))
        /\ WF_vars(eizo_get_value_write(t))
        /\ WF_vars(eizo_get_value_wait_write(t))
        /\ WF_vars(eizo_get_value_write_failed(t))
        /\ WF_vars(eizo_get_value_read(t))
        /\ WF_vars(eizo_get_value_wait_read(t))
        /\ WF_vars(eizo_get_value_exit(t))
        /\ SF_vars(eizo_set_value_lock(t))
        /\ SF_vars(eizo_get_value_lock(t))

SpecFair == Spec /\ Fairness

\* ----------------------------------------------------------------- claims

\* Between mutex_lock and mutex_unlock of eizo_set_value / eizo_get_value
Holding(t) ==
    th[t].pc \in {"write", "wait_write", "after_write", "wait_read", "after_read"}

\* Caller u makes a transport call in this step
Issues(u) == Len(th'[u].calls) = Len(th[u].calls) + 1

\* C1, the state part: on each device at most one caller is between
\* mutex_lock and mutex_unlock, and that caller is the owner of the mutex.
C1_OneHolder ==
    \A t \in env.callers :
        Holding(t) =>
            /\ dev[th[t].hdev].owner = t
            /\ \A u \in env.callers \ {t} :
                   th[u].hdev = th[t].hdev => ~Holding(u)

\* C1, the step part: whenever a caller makes a transport call, no other
\* caller of that device is inside an exchange, before or after the step;
\* so nothing comes between the SET_REPORT and the GET_REPORT of a get.
C1_NoForeignCall ==
    \A u \in env.callers :
        Issues(u) =>
            \A t \in env.callers \ {u} :
                th[t].hdev = th[u].hdev =>
                    /\ ~Holding(t)
                    /\ th'[t] = th[t]

\* C1: transport calls of different operations on one device never
\* interleave: at most one caller holds the lock at any time, and every
\* transport call is made by that caller alone.
C1_Serialized == []C1_OneHolder /\ [][C1_NoForeignCall]_vars

\* C1 witness: a get has done its SET_REPORT and not yet its GET_REPORT
\* while another caller of the same device waits in mutex_lock.
C1_Witness ==
    \E t, u \in env.callers :
        /\ t # u
        /\ th[t].op = "show" /\ th[t].pc = "after_write" /\ th[t].ret >= 0
        /\ Len(th[t].calls) = 1
        /\ th[u].pc = "lock" /\ th[u].hdev = th[t].hdev

\* The callers inside or just out of eizo_attr_show / eizo_attr_store
Gets == {t \in env.callers : th[t].op = "show"}
Sets == {t \in env.callers : th[t].op = "store"}

\* C2: a get makes its transport calls on report 3 in this order: a
\* SET_REPORT whose frame carries the usage and zero value bytes, then a
\* GET_REPORT into the same buffer; a successful get has made exactly
\* these two, and after a failed write no read is made.
C2_WriteThenRead ==
    \A t \in Gets :
        LET calls == th[t].calls IN
        /\ Len(calls) <= 2
        /\ \A i \in 1..Len(calls) : calls[i].rid = 3 /\ calls[i].len = 39
        /\ Len(calls) >= 1 =>
              /\ calls[1].req = "SET_REPORT"
              /\ LE32(calls[1].report, 1) = th[t].usage
              /\ \A i \in 8..11 : calls[1].report[i] = 0
        /\ Len(calls) = 2 =>
              /\ calls[2].req = "GET_REPORT"
              /\ calls[2].report = calls[1].report
              /\ calls[1].status >= 0
        /\ (th[t].pc = "done" /\ th[t].engine = "get" /\ th[t].res = 0) =>
              Len(calls) = 2

\* C2 witness: one get has returned success after its two calls, and
\* another has returned after a failed write with that one call made.
C2_Witness ==
    \E t, u \in Gets :
        /\ th[t].pc = "done" /\ th[t].res = 0
        /\ Len(th[t].calls) = 2 /\ th[t].calls[2].status = FrameLen
        /\ th[u].pc = "done" /\ th[u].res = -ECOMM
        /\ Len(th[u].calls) = 1 /\ th[u].calls[1].status < 0

\* C3: a get whose write or read returned a negative status returns
\* -ECOMM and does not own the mutex any more; the mutex is never owned by
\* a caller outside an exchange, so the next set or get can take it.
C3_FailedGetReleases ==
    /\ \A t \in Gets :
          (th[t].pc = "done" /\ \E i \in 1..Len(th[t].calls) :
                                    th[t].calls[i].status < 0) =>
              /\ th[t].res = -ECOMM
              /\ dev[th[t].hdev].owner # t
    /\ \A d \in env.devices :
          dev[d].owner # 0 =>
              /\ dev[d].owner \in env.callers
              /\ Holding(dev[d].owner)
              /\ th[dev[d].owner].hdev = d

\* C3 witness: a get failed in its read and returned -ECOMM, and another
\* caller has since taken the mutex of the same device.
C3_Witness ==
    \E t \in Gets, u \in env.callers :
        /\ t # u
        /\ th[t].pc = "done" /\ th[t].res = -ECOMM
        /\ Len(th[t].calls) = 2 /\ th[t].calls[2].status < 0
        /\ th[u].hdev = th[t].hdev /\ Holding(u)
        /\ dev[th[t].hdev].owner = u

\* C4: a read or write of an attribute whose name is none of brightness,
\* power, gamma, profile returns -EINVAL without entering the engine: no
\* transport call, no mutex_lock.
C4_UnknownNameRejected ==
    \A t \in env.callers :
        (th[t].pc # "idle" /\ th[t].name \notin AttrNames) =>
            /\ th[t].pc = "done"
            /\ th[t].rc = -EINVAL
            /\ th[t].engine = "none"
            /\ th[t].calls = <<>>
            /\ th[t].lockAt = "none"
            /\ \A d \in env.devices : dev[d].owner # t

\* C4 witness: a write of a well-formed number to an unknown attribute
\* has returned while the device is bound.
C4_Witness ==
    \E t \in Sets :
        /\ th[t].pc = "done" /\ th[t].name = "contrast"
        /\ kstrtoint(th[t].buf)[1] = 0
        /\ th[t].phase = "bound"

\* C5: eizo_attr_store returns success (count) only after exactly one
\* transport call that returned a non-negative status; a negative status,
\* a missing session or a failed allocation makes it return an error.
C5_FailedSetNotSuccess ==
    \A t \in Sets :
        th[t].pc = "done" =>
            /\ th[t].rc >= 0 =>
                  /\ th[t].rc = Len(th[t].buf)
                  /\ Len(th[t].calls) = 1
                  /\ th[t].calls[1].rid = 2
                  /\ th[t].calls[1].status >= 0
            /\ (\E i \in 1..Len(th[t].calls) : th[t].calls[i].status < 0) =>
                  th[t].rc < 0
            /\ th[t].res < 0 => th[t].rc < 0
            /\ (th[t].engine = "set" /\ th[t].calls = <<>>) =>
                  /\ th[t].res \in {-ENODATA, -ENOMEM}
                  /\ th[t].rc < 0
            /\ (th[t].engine = "set"
                  /\ th[t].phase \in {"probe_init", "probe_publish"}) =>
                  th[t].res = -ENODATA

\* C5 witness: a set whose transport call failed has returned -EPERM.
C5_Witness ==
    \E t \in Sets :
        /\ th[t].pc = "done" /\ th[t].rc = -EPERM
        /\ Len(th[t].calls) = 1 /\ th[t].calls[1].status < 0

\* C6: the bytes 1-4 and 7-10 that eizo_set_value hands to the transport
\* decode, little-endian with the expression of eizo_get_value, to the
\* usage and the value it was called with, negative values included.
C6_RoundTrip ==
    \A t \in Sets :
        th[t].calls # <<>> =>
            /\ th[t].usage \in Usages
            /\ th[t].value = kstrtoint(th[t].buf)[2]
            /\ LE32(th[t].calls[1].report, 1) = th[t].usage
            /\ DecodeValue(th[t].calls[1].report) = th[t].value

\* C6 witness: a set of the most negative int (only bit 31 set) has made
\* its transport call.
C6_Witness ==
    \E t \in Sets :
        /\ th[t].calls # <<>>
        /\ th[t].value = IntMin
        /\ th[t].calls[1].report[11] = 128

\* C7: the frame a set hands to the transport is 39 bytes on report 2:
\* byte 0 zero, bytes 1-4 the usage, bytes 5-6 the sequence, bytes 7-10
\* the value, all little-endian, and bytes 11-38 zero.
C7_SetFrameLayout ==
    \A t \in Sets :
        \A i \in 1..Len(th[t].calls) :
            LET call == th[t].calls[i]
                r == call.report
            IN  /\ call.rid = 2 /\ call.req = "SET_REPORT" /\ call.len = 39
                /\ Len(r) = 39
                /\ \A k \in 1..39 : r[k] \in 0..255
                /\ r[1] = 0
                /\ LE32(r, 1) = th[t].usage
                /\ r[6] + 256 * r[7] = th[t].counter
                /\ th[t].counter = dev[th[t].hdev].counter
                /\ LE32(r, 7) = th[t].value
                /\ \A k \in 12..39 : r[k] = 0

\* C7 witness: a set of a value with four different non-zero bytes has
\* made its transport call.
C7_Witness ==
    \E t \in Sets :
        /\ th[t].calls # <<>>
        /\ th[t].value = -16777216 + 65536 + 256 * 2 + 3
        /\ th[t].name = "profile"

\* C8: once eizo_data_init has run the counter of the device is 1 in every
\* state, whatever sets and gets ran, and every frame handed to the
\* transport carries 0x01, 0x00 in bytes 5-6.
C8_CounterIsOne ==
    /\ \A d \in env.devices :
          dev[d].lock \in {"init", "destroyed"} => dev[d].counter = 1
    /\ \A t \in env.callers :
          /\ Holding(t) => th[t].counter = 1
          /\ \A i \in 1..Len(th[t].calls) :
                /\ th[t].calls[i].report[6] = 1
                /\ th[t].calls[i].report[7] = 0

\* C8 witness: one caller has finished an exchange and another is inside
\* a later one, its frame already handed to the transport.
C8_Witness ==
    \E t, u \in env.callers :
        /\ t # u
        /\ th[t].pc = "done" /\ th[t].calls # <<>>
        /\ th[t].calls[Len(th[t].calls)].status < 0
        /\ Holding(u) /\ th[u].calls # <<>>
        /\ th[u].hdev = th[t].hdev

\* C9: nothing is retried: a set that took the lock makes exactly one
\* transport call, on report 2; a get makes at most two, on report 3, one
\* SET_REPORT and one GET_REPORT; no call follows a call that failed.
C9_NoRetry ==
    \A t \in env.callers :
        LET calls == th[t].calls IN
        /\ th[t].op = "store" =>
              /\ Len(calls) <= 1
              /\ \A i \in 1..Len(calls) : calls[i].rid = 2
              /\ (th[t].pc = "done" /\ th[t].lockAt # "none") => Len(calls) = 1
        /\ th[t].op = "show" =>
              /\ Len(calls) <= 2
              /\ \A i \in 1..Len(calls) : calls[i].rid = 3
              /\ \A i, j \in 1..Len(calls) : i # j => calls[i].req # calls[j].req
        /\ \A i \in 1..Len(calls) : calls[i].status < 0 => i = Len(calls)
        /\ th[t].waits <= Len(calls)

\* C9 witness: a set whose only transport call failed has returned, and a
\* get whose write failed has returned.
C9_Witness ==
    \E t \in Sets, u \in Gets :
        /\ th[t].pc = "done" /\ Len(th[t].calls) = 1
        /\ th[t].calls[1].status < 0
        /\ th[u].pc = "done" /\ Len(th[u].calls) = 1
        /\ th[u].calls[1].status < 0

\* C10: a set or get entered while the device is outside its attach/detach
\* window (before hid_set_drvdata in probe, or after remove has begun)
\* returns -ENODATA without a transport call and without taking the lock.
C10_OutsideWindowNoSession ==
    \A t \in env.callers :
        (th[t].engine # "none"
            /\ th[t].phase \in {"probe_init", "probe_publish", "remove_sysfs"}) =>
            /\ th[t].pc = "done"
            /\ th[t].res = -ENODATA
            /\ th[t].calls = <<>>
            /\ th[t].lockAt = "none"

\* A '-' or '+' or nothing, then only decimal digits, at least one, then
\* at most one newline: the shape of a base-10 integer
IsDecimal(buf) ==
    LET s1 == IF buf # <<>> /\ Head(buf) \in {"-", "+"} THEN Tail(buf) ELSE buf
        s2 == IF s1 # <<>> /\ s1[Len(s1)] = "\n"
              THEN SubSeq(s1, 1, Len(s1) - 1) ELSE s1
    IN  /\ s2 # <<>>
        /\ \A i \in 1..Len(s2) : IsDigit(s2[i])

\* C11: a write whose input is not a base-10 integer, or is one that does
\* not fit an int, returns -EINVAL before eizo_set_value is entered,
\* whatever the attribute: no transport call, no mutex_lock.
C11_BadInputRejected ==
    \A t \in Sets :
        (th[t].pc # "idle" /\ (~IsDecimal(th[t].buf) \/ kstrtoint(th[t].buf)[1] < 0)) =>
            /\ th[t].pc = "done"
            /\ th[t].rc = -EINVAL
            /\ th[t].engine = "none"
            /\ th[t].calls = <<>>
            /\ th[t].lockAt = "none"
            /\ th[t].report = <<>>
            /\ \A d \in env.devices : dev[d].owner # t

\* C11 witness: a write of "12x" to brightness on a bound device has
\* returned.
C11_Witness ==
    \E t \in Sets :
        /\ th[t].pc = "done" /\ th[t].name = "brightness"
        /\ th[t].buf = <<"1", "2", "x">>
        /\ th[t].phase = "bound"

\* The usage code the attribute table gives each name
UsageOf(name) ==
    CASE name = "brightness" -> EIZO_USAGE_BRIGHTNESS
      [] name = "power" -> EIZO_USAGE_POWER
      [] name = "gamma" -> EIZO_USAGE_GAMMA
      [] name = "profile" -> EIZO_USAGE_PROFILE

C13_DevicesIndependent ==
    \A t \in env.callers :
        (th[t].pc \notin {"idle", "done"}
            /\ ~(th[t].pc = "lock"
                    /\ \E u \in env.callers \ {t} :
                           th[u].hdev = th[t].hdev /\ Holding(u))) =>
            ENABLED Step(t)

\* C13 witness: one caller is blocked in a transport call of device 1
\* holding its lock while another, having entered later on device 2, holds
\* the lock of device 2.
C13_Witness ==
    \E t, u \in env.callers :
        /\ th[t].hdev = 1 /\ th[t].pc = "wait_write" /\ dev[1].owner = t
        /\ th[u].hdev = 2 /\ th[u].pc = "write" /\ dev[2].owner = u
        /\ th[u].lockAt = "init"

\* Caller t is blocked in mutex_lock
Waiting(t) == th[t].pc = "lock"

\* C14, the state part: a caller whose handler has returned owns no mutex.
C14_ReturnedWithoutLock ==
    \A t \in env.callers :
        th[t].pc \in {"idle", "done"} => \A d \in env.devices : dev[d].owner # t

\* C14: under fair scheduling every handler that was entered returns,
\* every caller waiting in mutex_lock gets the lock, and a caller that has
\* returned, on whatever path, does not own the lock.
C14_RunsToCompletion ==
    /\ \A t \in 1..NumCallers :
          /\ (th[t].pc \notin {"idle", "done"}) ~> (th[t].pc = "done")
          /\ Waiting(t) ~> Holding(t)
    /\ []C14_ReturnedWithoutLock

\* C14 witness: a set whose transport call failed is about to leave by its
\* error path while another caller waits in mutex_lock for the same lock.
C14_Witness ==
    \E t, u \in env.callers :
        /\ t # u
        /\ th[t].op = "store" /\ th[t].pc = "after_write" /\ th[t].ret < 0
        /\ Waiting(u) /\ th[u].hdev = th[t].hdev
        /\ dev[th[t].hdev].owner = t

\* C15, the state part.  A buffer that has not been locked in is all zero
\* and no counter has been read for it; a caller inside an exchange holds
\* the lock and carries the counter of its device; a get that succeeded
\* returns the value in bytes 7-10 of its own buffer, which is its own
\* request frame with the bytes of its own read laid over it.
C15_OwnBuffer ==
    \A t \in env.callers :
        LET c == th[t] IN
        /\ Waiting(t) => c.report = ZeroReport /\ c.counter = 0
        /\ Holding(t) => /\ dev[c.hdev].owner = t
                         /\ c.counter = dev[c.hdev].counter
        /\ (c.engine = "get" /\ c.pc = "done" /\ c.res = 0) =>
              /\ Len(c.calls) = 2
              /\ c.calls[1].report = GetFrame(ZeroReport, c.usage, c.counter)
              /\ c.calls[2].report = c.calls[1].report
              /\ c.value = DecodeValue(c.report)
              /\ c.calls[2].status = 0 =>
                    c.report = c.calls[1].report /\ c.value = 0
              /\ c.calls[2].status > 0 =>
                    /\ c.value \in env.reads
                    /\ c.report = ReadInto(c.calls[1].report,
                                           c.calls[2].status, c.value)

\* C15, the step part: a caller's copy of the counter and its buffer change
\* only by a step of that caller, and the counter is copied only in the step
\* that leaves it the owner of the lock.
C15_LocalStep ==
    \A t \in env.callers :
        /\ (th'[t].counter # th[t].counter /\ th'[t].pc # "idle") =>
              /\ dev'[th'[t].hdev].owner = t
              /\ th'[t].counter = dev[th[t].hdev].counter
        /\ th'[t].report # th[t].report =>
              \A u \in env.callers \ {t} : th'[u] = th[u]

\* C15: the frame buffer is exchange-local (a get's value is decoded from
\* bytes 7-10 of its own buffer as its own read left it, 0 when the read
\* left it untouched), and the counter is read only under the lock.
C15_ExchangeLocal == []C15_OwnBuffer /\ [][C15_LocalStep]_vars

\* C15 witness: a get whose read transferred nothing has returned 0 while
\* another caller is inside a set whose frame carries a non-zero value.
C15_Witness ==
    \E t, u \in env.callers :
        /\ th[t].engine = "get" /\ th[t].pc = "done" /\ th[t].res = 0
        /\ th[t].calls[2].status = 0 /\ th[t].value = 0
        /\ th[u].engine = "set" /\ Holding(u) /\ DecodeValue(th[u].report) # 0
        /\ th[u].hdev = th[t].hdev

\* The transport requests of caller t that its hid_hw_wait has not followed
Pending(t) == Len(th[t].calls) - th[t].waits

\* C16, the state part: a caller has at most one request without its
\* hid_hw_wait, only right after issuing it and only as owner of the lock;
\* a handler that has returned has waited for every request it made.
C16_WaitFollows ==
    \A t \in env.callers :
        /\ Pending(t) \in {0, 1}
        /\ Pending(t) = 1 <=> th[t].pc \in {"wait_write", "wait_read"}
        /\ Pending(t) = 1 => dev[th[t].hdev].owner = t
        /\ th[t].pc = "done" => Pending(t) = 0

\* C16, the step part: when a request is issued no caller of that device
\* has a request without its wait, and a caller that gives up the lock has
\* none, whatever the status of its requests.
C16_WaitFirst ==
    /\ \A u \in env.callers :
          Issues(u) =>
              \A t \in env.callers :
                  th[t].hdev = th[u].hdev => Pending(t) = 0
    /\ \A t \in env.callers, d \in env.devices :
          (dev[d].owner = t /\ dev'[d].owner # t) =>
              /\ Pending(t) = 0
              /\ th'[t].waits = Len(th'[t].calls)
              /\ th'[t].waits > 0

\* C16: every transport request is followed by the hid_hw_wait of the same
\* caller before that caller unlocks and before any other request on the
\* device, on the success and on the failure path.
C16_RequestThenWait == []C16_WaitFollows /\ [][C16_WaitFirst]_vars

\* C16 witness: a get whose read failed has returned after two requests and
\* two waits, and the lock is free again.
C16_Witness ==
    \E t \in env.callers :
        /\ th[t].engine = "get" /\ th[t].pc = "done"
        /\ Len(th[t].calls) = 2 /\ th[t].calls[2].status < 0
        /\ th[t].waits = 2
        /\ dev[th[t].hdev].owner = 0

\* Caller record c entered its handler while probe had not yet stored the
\* driver data (between sysfs_create_group and hid_set_drvdata)
NoSession(c) == c.phase \in {"probe_init", "probe_publish"}

\* Caller record c never had a frame buffer
NoBuffer(c) == c.report = <<>>

\* A transport call of caller record c returned a negative status
TransportFailed(c) == \E i \in 1..Len(c.calls) : c.calls[i].status < 0

\* C17: eizo_set_value / eizo_get_value return -ENODATA exactly when the
\* driver data was missing and -ENOMEM exactly when it was there but no
\* buffer could be allocated, both without locking and without a transport
\* call; they return -ECOMM exactly when a transport call had a negative
\* status, that call being the last, and then the lock has been released.
C17_ErrorPerCause ==
    \A t \in env.callers :
        LET c == th[t] IN
        (c.pc = "done" /\ c.engine # "none") =>
            /\ c.res \in {0, -ENODATA, -ENOMEM, -ECOMM}
            /\ c.res = -ENODATA <=> NoSession(c)
            /\ c.res = -ENOMEM <=> (~NoSession(c) /\ NoBuffer(c))
            /\ c.res = -ECOMM <=> TransportFailed(c)
            /\ c.res \in {-ENODATA, -ENOMEM} =>
                  /\ c.calls = <<>> /\ c.waits = 0
                  /\ c.lockAt = "none" /\ NoBuffer(c)
            /\ c.res = -ECOMM =>
                  /\ c.lockAt # "none"
                  /\ c.calls[Len(c.calls)].status < 0
                  /\ dev[c.hdev].owner # t

\* C17 witness: one caller's operation has returned -ENOMEM and another's,
\* on the same device, -ECOMM after a failed request.
C17_Witness ==
    \E t, u \in env.callers :
        /\ th[t].pc = "done" /\ th[t].engine # "none" /\ th[t].res = -ENOMEM
        /\ th[u].pc = "done" /\ th[u].res = -ECOMM /\ TransportFailed(th[u])
        /\ th[u].hdev = th[t].hdev

\* C18: mutex_destroy never runs on a mutex that a caller holds or waits
\* for, no caller holds or waits for a destroyed mutex, and no set or get
\* takes the mutex after mutex_destroy.
C18_NoTeardownUnderExchange ==
    /\ \A d \in env.devices :
          dev[d].lock = "destroyed" =>
              \A t \in env.callers :
                  th[t].hdev = d => ~Holding(t) /\ ~Waiting(t)
    /\ \A t \in env.callers : th[t].lockAt # "destroyed"

\* The mutex of a device in lock state l has been through mutex_init
Initialised(l) == l \in {"init", "destroyed"}

\* C19: with the statements of probe taking effect in program order, the
\* driver data is stored only after eizo_data_init: wherever it is
\* non-NULL the mutex has been initialised and the counter is 1, every
\* caller that took the lock took an initialised one and read counter 1,
\* and an operation entered between sysfs_create_group and hid_set_drvdata
\* returns -ENODATA without a lock operation or a transport call.
C19_PublishAfterInit ==
    /\ \A d \in env.devices :
          hid_get_drvdata(d) # "NULL" =>
              Initialised(dev[d].lock) /\ dev[d].counter = CounterSeed
    /\ \A t \in env.callers :
          LET c == th[t] IN
          /\ c.lockAt # "none" =>
                Initialised(c.lockAt) /\ c.counter = CounterSeed
          /\ (c.engine # "none" /\ NoSession(c)) =>
                /\ c.pc = "done" /\ c.res = -ENODATA
                /\ c.calls = <<>> /\ c.waits = 0
                /\ c.lockAt = "none" /\ c.counter = 0
                /\ dev[c.hdev].owner # t

\* C19 witness: probe has completed; one operation, entered after
\* eizo_data_init and before hid_set_drvdata, has returned -ENODATA, and
\* another, entered afterwards, holds the initialised lock with counter 1.
C19_Witness ==
    \E t, u \in env.callers :
        /\ th[t].phase = "probe_publish" /\ th[t].pc = "done"
        /\ th[t].res = -ENODATA
        /\ th[u].phase = "bound" /\ Holding(u) /\ th[u].hdev = th[t].hdev
        /\ th[u].lockAt = "init" /\ th[u].counter = CounterSeed

=============================================================================
